---- MODULE Spec2Model ----
(***************************************************************************)
(* prometheus-weather-exporter: the refresh-on-timer exporter              *)
(* (src/unnamed/part_000, lines 213-395).                                  *)
(*                                                                         *)
(* main loads the configuration, registers one GaugeVec per configured     *)
(* metric, starts one goroutine that loops forever over the configured     *)
(* locations (getWeather, then one Set per gauge) and sleeps between the   *)
(* loops, and serves the registry over HTTP.                               *)
(*                                                                         *)
(* Floating point numbers are integers here: a coordinate is a count of    *)
(* 1e-7 degrees, a "%f" string is the count of 1e-6 degrees it prints, and *)
(* a datapoint value is an integer.                                        *)
(***************************************************************************)
EXTENDS Integers, Sequences, FiniteSets, TLC

(* ------------------------------ bounds -------------------------------- *)

\* Refresh cycles the worker starts before the model stops it.
MaxCycles == 2

\* The largest value of a field of a datapoint handed to the extractor.
MaxValue == 1

\* The forecast datapoints the forecast service answers with.
Readings == {"mild", "cold"}

(* ------------------------- the environment ---------------------------- *)

\* The configuration files the process is started with: two that cannot be
\* loaded, three that main refuses, and four that it runs with.
ConfigFiles ==
    { [kind |-> k, Locations |-> <<>>, Metrics |-> <<>>] :
          k \in {"unreadable", "badjson"} }
    \cup
    { [kind |-> "ok", Locations |-> <<>>, Metrics |-> <<"temperature">>],
      [kind |-> "ok", Locations |-> <<"Dublin">>, Metrics |-> <<>>],
      [kind |-> "ok", Locations |-> <<"Dublin">>,
       Metrics |-> <<"temperature", "temperature">>],
      [kind |-> "ok", Locations |-> <<"Dublin">>,
       Metrics |-> <<"temperature">>],
      [kind |-> "ok", Locations |-> <<"Dublin", "Napoli">>,
       Metrics |-> <<"humidity", "temperature">>],
      [kind |-> "ok", Locations |-> <<"Dublin", "Napoli">>,
       Metrics |-> <<"temperature", "bogus_field">>],
      [kind |-> "ok", Locations |-> <<"Napoli", "Napoli">>,
       Metrics |-> <<"temperature">>] }

\* What the geocoding service knows: the first result it has for an address.
GeocodeDB(address) ==
    IF address = "Napoli"
    THEN [LongName |-> "Naples", Lat |-> 408517996, Lng |-> 142681244]
    ELSE [LongName |-> address, Lat |-> 533500004, Lng |-> -62600000]

\* The answers of client.Geocode for an address: an error, no result, a
\* result without address components, or the result with its components.
GeocodeResponses(address) ==
    LET g == GeocodeDB(address) IN
    { [err |-> TRUE, resp |-> <<>>],
      [err |-> FALSE, resp |-> <<>>],
      [err |-> FALSE,
       resp |-> << [AddressComponents |-> <<>>, Lat |-> g.Lat, Lng |-> g.Lng] >>],
      [err |-> FALSE,
       resp |-> << [AddressComponents |-> << g.LongName >>,
                    Lat |-> g.Lat, Lng |-> g.Lng] >>] }

\* forecast.DataPoint, the fields getValueByFieldName reads: datapoint k in
\* SI units, and the same weather in another unit system.
DataPoint(k, units) ==
    LET base == (IF units = "si" THEN 0 ELSE 100)
                + (IF k = "mild" THEN 10 ELSE 20) IN
    [Temperature |-> base + 1, ApparentTemperature |-> base + 2,
     WindSpeed |-> base + 3, CloudCover |-> base + 4,
     Humidity |-> base + 5, PrecipIntensity |-> base + 6]

UnitSystems == {"si", "us"}

\* A "%f" string read back as a number.
ParseFloat(s) == 10 * s

\* The answers of forecast.Get for the coordinate strings of a request: an
\* error, or a forecast at the requested point or at a point nearby.
ForecastResponses(lat, lng) ==
    { [err |-> TRUE, fc |-> <<>>] }
    \cup
    { [err |-> FALSE,
       fc |-> << [Flags |-> [Units |-> u], Latitude |-> la,
                  Longitude |-> ParseFloat(lng),
                  Currently |-> DataPoint(k, u)] >>] :
          u \in UnitSystems, k \in Readings,
          la \in {ParseFloat(lat), ParseFloat(lat) + 20} }

(* ------------------------- pure functions ----------------------------- *)

\* fmt.Sprintf("%f", x): six fractional digits, rounded to nearest, ties to
\* even.
Sprintf_f(x) ==
    LET a == IF x < 0 THEN -x ELSE x
        q == a \div 10
        r == a % 10
        n == IF r > 5 \/ (r = 5 /\ q % 2 = 1) THEN q + 1 ELSE q
    IN  IF x < 0 THEN -n ELSE n

LatString(l) == Sprintf_f(l.Lat)

LngString(l) == Sprintf_f(l.Lng)

\* getLocation: the outcome for one answer of the geocoding service.
\* resp[0].AddressComponents[0] is read without a length check: an empty
\* list is an index out of range, a run-time panic.
getLocation(geo) ==
    IF geo.err
    THEN [loc |-> <<>>, err |-> TRUE, panic |-> FALSE]
    ELSE IF Len(geo.resp) = 0
    THEN [loc |-> <<>>, err |-> TRUE, panic |-> FALSE]
    ELSE IF Len(geo.resp[1].AddressComponents) = 0
    THEN [loc |-> <<>>, err |-> FALSE, panic |-> TRUE]
    ELSE [loc |-> << [Name |-> geo.resp[1].AddressComponents[1],
                      Lat |-> geo.resp[1].Lat,
                      Lng |-> geo.resp[1].Lng] >>,
          err |-> FALSE, panic |-> FALSE]

NoError == ""

\* A Forecast whose fields were never filled in.
ZeroForecast ==
    [Flags |-> [Units |-> "si"], Latitude |-> 0, Longitude |-> 0,
     Currently |-> [Temperature |-> 0, ApparentTemperature |-> 0,
                    WindSpeed |-> 0, CloudCover |-> 0, Humidity |-> 0,
                    PrecipIntensity |-> 0]]

\* getWeather without the check of forecast.Get's error.
getWeather_ignoresFetchError(geo, fw) ==
    LET l == getLocation(geo) IN
    IF l.panic
    THEN [fc |-> <<>>, err |-> NoError, panic |-> TRUE]
    ELSE IF l.err
    THEN [fc |-> <<>>, err |-> "GMaps search failed", panic |-> FALSE]
    ELSE IF fw.err
    THEN [fc |-> << ZeroForecast >>, err |-> NoError, panic |-> FALSE]
    ELSE IF fw.fc[1].Flags.Units # "si"
    THEN [fc |-> <<>>, err |-> "units are not SI", panic |-> FALSE]
    ELSE [fc |-> fw.fc, err |-> NoError, panic |-> FALSE]

\* getWeather without the check of the forecast's unit system.
getWeather_noUnitCheck(geo, fw) ==
    LET l == getLocation(geo) IN
    IF l.panic
    THEN [fc |-> <<>>, err |-> NoError, panic |-> TRUE]
    ELSE IF l.err
    THEN [fc |-> <<>>, err |-> "GMaps search failed", panic |-> FALSE]
    ELSE IF fw.err
    THEN [fc |-> <<>>, err |-> "forecast request failed", panic |-> FALSE]
    ELSE [fc |-> fw.fc, err |-> NoError, panic |-> FALSE]

\* getWeather once the answers of the two services are known: fw is the
\* answer of forecast.Get, used only when getLocation succeeded.
getWeather(geo, fw) ==
    LET l == getLocation(geo) IN
    IF l.panic
    THEN [fc |-> <<>>, err |-> NoError, panic |-> TRUE]
    ELSE IF l.err
    THEN [fc |-> <<>>, err |-> "GMaps search failed", panic |-> FALSE]
    ELSE IF fw.err
    THEN [fc |-> <<>>, err |-> "forecast request failed", panic |-> FALSE]
    ELSE IF fw.fc[1].Flags.Units # "si"
    THEN [fc |-> <<>>, err |-> "units are not SI", panic |-> FALSE]
    ELSE [fc |-> fw.fc, err |-> NoError, panic |-> FALSE]

\* getValueByFieldName with the first case returning its neighbour's field.
getValueByFieldName_wrongField(field, dp) ==
    CASE field = "temperature" ->
             [val |-> dp.ApparentTemperature, err |-> FALSE]
      [] field = "apparent_temperature" ->
             [val |-> dp.ApparentTemperature, err |-> FALSE]
      [] field = "wind_speed" -> [val |-> dp.WindSpeed, err |-> FALSE]
      [] field = "cloud_cover" -> [val |-> dp.CloudCover, err |-> FALSE]
      [] field = "humidity" -> [val |-> dp.Humidity, err |-> FALSE]
      [] field = "precip_intensity" ->
             [val |-> dp.PrecipIntensity, err |-> FALSE]
      [] OTHER -> [val |-> 0, err |-> TRUE]

\* getValueByFieldName with a default that is no error.
getValueByFieldName_defaultZero(field, dp) ==
    CASE field = "temperature" -> [val |-> dp.Temperature, err |-> FALSE]
      [] field = "apparent_temperature" ->
             [val |-> dp.ApparentTemperature, err |-> FALSE]
      [] field = "wind_speed" -> [val |-> dp.WindSpeed, err |-> FALSE]
      [] field = "cloud_cover" -> [val |-> dp.CloudCover, err |-> FALSE]
      [] field = "humidity" -> [val |-> dp.Humidity, err |-> FALSE]
      [] field = "precip_intensity" ->
             [val |-> dp.PrecipIntensity, err |-> FALSE]
      [] OTHER -> [val |-> 0, err |-> FALSE]

\* getValueByFieldName without its last case.
getValueByFieldName_missingCase(field, dp) ==
    CASE field = "temperature" -> [val |-> dp.Temperature, err |-> FALSE]
      [] field = "apparent_temperature" ->
             [val |-> dp.ApparentTemperature, err |-> FALSE]
      [] field = "wind_speed" -> [val |-> dp.WindSpeed, err |-> FALSE]
      [] field = "cloud_cover" -> [val |-> dp.CloudCover, err |-> FALSE]
      [] field = "humidity" -> [val |-> dp.Humidity, err |-> FALSE]
      [] OTHER -> [val |-> 0, err |-> TRUE]

getValueByFieldName(field, dp) ==
    CASE field = "temperature" -> [val |-> dp.Temperature, err |-> FALSE]
      [] field = "apparent_temperature" ->
             [val |-> dp.ApparentTemperature, err |-> FALSE]
      [] field = "wind_speed" -> [val |-> dp.WindSpeed, err |-> FALSE]
      [] field = "cloud_cover" -> [val |-> dp.CloudCover, err |-> FALSE]
      [] field = "humidity" -> [val |-> dp.Humidity, err |-> FALSE]
      [] field = "precip_intensity" ->
             [val |-> dp.PrecipIntensity, err |-> FALSE]
      [] OTHER -> [val |-> 0, err |-> TRUE]

\* LoadConfig: the file cannot be read, is not JSON, or gives the Config.
LoadConfig(f) ==
    IF f.kind = "unreadable"
    THEN [config |-> [Locations |-> <<>>, Metrics |-> <<>>],
          err |-> "failed to read config file"]
    ELSE IF f.kind = "badjson"
    THEN [config |-> [Locations |-> <<>>, Metrics |-> <<>>],
          err |-> "failed to unmarshal JSON config"]
    ELSE [config |-> [Locations |-> f.Locations, Metrics |-> f.Metrics],
          err |-> NoError]

\* A GaugeVec with no child yet.
NewGaugeVec == << >>

\* main's registration loop from metric n on: the gauges map it ends with,
\* and whether a prometheus.Register call failed (a collector of that name
\* is registered already).
RECURSIVE RegisterGauges(_, _, _)
RegisterGauges(metrics, n, g) ==
    IF n > Len(metrics)
    THEN [gauges |-> g, err |-> FALSE]
    ELSE IF metrics[n] \in DOMAIN g
    THEN [gauges |-> g, err |-> TRUE]
    ELSE RegisterGauges(metrics, n + 1,
             [k \in DOMAIN g \cup {metrics[n]} |->
                 IF k = metrics[n] THEN NewGaugeVec ELSE g[k]])

\* A break in the place of the continue: no key remains to be visited.
continue_asBreak(keys, key) == {}

\* The continue statement of the range over gauges: the keys that remain
\* to be visited after key was skipped.
continue(keys, key) == keys \ {key}

\* WithLabelValuesSet on a GaugeVec that is reset before the child is set.
WithLabelValuesSet_afterReset(vec, lvs, val) ==
    [l \in {lvs} |-> val]

\* gauge.WithLabelValues(lvs).Set(val) on GaugeVec vec.
WithLabelValuesSet(vec, lvs, val) ==
    [l \in DOMAIN vec \cup {lvs} |-> IF l = lvs THEN val ELSE vec[l]]

\* The label values of the samples of one forecast of location name loc.
LabelValues(loc, fc) ==
    << loc, Sprintf_f(fc.Latitude), Sprintf_f(fc.Longitude) >>

(* ------------------------------ state --------------------------------- *)

VARIABLES
    file,        \* the configuration file the process was started with
    proc,        \* "init", "running", "exited" (log.Fatal), "panicked"
    config,      \* the Config main loaded
    gauges,      \* metric name -> GaugeVec (label values -> value)
    server,      \* "off" or "listening"
    pc,          \* the worker: "off", "cycle", "loc", "update", "sleep"
    i,           \* the worker's position in config.Locations
    fc,          \* the forecast of the location being updated
    todo,        \* the keys of gauges the range loop has yet to visit
    visited,     \* the keys it visited for this location, in order
    cycle,       \* refresh cycles started
    finished,    \* refresh cycles finished
    sleeps,      \* time.Sleep calls that returned
    calls,       \* upstream calls made since the current cycle began
    cycleStart,  \* gauges as the current cycle found them
    log,         \* what the services answered in the current cycle
    okPrev,      \* the locations the previous cycle updated
    response,    \* the last scrape's answer since the current cycle began
    callField,   \* getValueByFieldName called on its own: the field name
    callDp,      \* ... the datapoint it is handed
    callRet      \* ... and what it returned

vars == << file, proc, config, gauges, server, pc, i, fc, todo, visited,
           cycle, finished, sleeps, calls, cycleStart, log, okPrev, response,
           callField, callDp, callRet >>

extractor == << callField, callDp, callRet >>

worker == << pc, i, fc, todo, visited, cycle, finished, sleeps >>

history == << cycleStart, log, okPrev >>

Init ==
    /\ file \in ConfigFiles
    /\ proc = "init"
    /\ config = [Locations |-> <<>>, Metrics |-> <<>>]
    /\ gauges = << >>
    /\ server = "off"
    /\ pc = "off"
    /\ i = 0
    /\ fc = << >>
    /\ todo = {}
    /\ visited = << >>
    /\ cycle = 0
    /\ finished = 0
    /\ sleeps = 0
    /\ calls = [geocode |-> 0, forecast |-> 0]
    /\ cycleStart = << >>
    /\ log = << >>
    /\ okPrev = {}
    /\ response = << >>
    /\ callField = ""
    /\ callDp = ZeroForecast.Currently
    /\ callRet = << >>

(* ----------------------------- startup -------------------------------- *)

\* The process ends (os.Exit in log.Fatal, or a panic): its goroutines, its
\* registry and its listener are gone.
Exit(how) ==
    /\ proc' = how
    /\ config' = [Locations |-> <<>>, Metrics |-> <<>>]
    /\ gauges' = << >>
    /\ server' = "off"
    /\ pc' = "off"
    /\ i' = 0
    /\ fc' = << >>
    /\ todo' = {}
    /\ visited' = << >>
    /\ cycleStart' = << >>
    /\ log' = << >>
    /\ okPrev' = {}
    /\ response' = << >>

\* main with no check of the two lists' lengths.
Fatal_noLengthChecks(lc, reg) ==
    \/ lc.err # NoError
    \/ reg.err

\* The log.Fatalf calls of main: lc is what LoadConfig returned, reg what
\* the registration loop did.
Fatal(lc, reg) ==
    \/ lc.err # NoError
    \/ Len(lc.config.Locations) = 0
    \/ Len(lc.config.Metrics) = 0
    \/ reg.err

\* main up to and including the go statement: log.Fatalf on a configuration
\* that cannot be loaded, on an empty location or metric list and on a
\* failed registration; otherwise the gauges are registered and the worker
\* goroutine exists.
main ==
    /\ UNCHANGED extractor
    /\ proc = "init"
    /\ LET lc == LoadConfig(file)
           reg == RegisterGauges(lc.config.Metrics, 1, << >>)
       IN  IF Fatal(lc, reg)
           THEN /\ proc' = "exited"
                /\ UNCHANGED << config, gauges, pc >>
           ELSE /\ proc' = "running"
                /\ config' = lc.config
                /\ gauges' = reg.gauges
                /\ pc' = "cycle"
    /\ UNCHANGED << file, server, i, fc, todo, visited, cycle, finished,
                    sleeps, calls, history, response >>

\* http.ListenAndServe binds the address and serves.
ListenAndServe ==
    /\ UNCHANGED extractor
    /\ proc = "running"
    /\ server = "off"
    /\ server' = "listening"
    /\ UNCHANGED << file, proc, config, gauges, worker, calls, history,
                    response >>

\* http.ListenAndServe returns (it only returns an error): log.Fatal.
ListenAndServeFails ==
    /\ UNCHANGED extractor
    /\ proc = "running"
    /\ Exit("exited")
    /\ UNCHANGED << file, cycle, finished, sleeps, calls >>

(* --------------------------- the worker ------------------------------- *)

\* What the two services answered for one location of a cycle: the answer
\* of the geocoding service, whether the forecast service answered, and
\* with which unit system; the forecast itself when it is an SI one.
Answered(name, geo, fw) ==
    [name |-> name,
     geo |-> geo,
     fetched |-> ~fw.err,
     units |-> IF fw.err THEN "" ELSE fw.fc[1].Flags.Units,
     fc |-> IF ~fw.err /\ fw.fc[1].Flags.Units = "si" THEN fw.fc ELSE << >>]

\* The top of the for loop: "Fetching weather...".
BeginCycle ==
    /\ UNCHANGED extractor
    /\ proc = "running"
    /\ pc = "cycle"
    /\ cycle < MaxCycles
    /\ cycle' = cycle + 1
    /\ pc' = "loc"
    /\ i' = 1
    /\ cycleStart' = gauges
    /\ log' = << >>
    /\ response' = << >>
    /\ calls' = [geocode |-> 0, forecast |-> 0]
    /\ UNCHANGED << file, proc, config, gauges, server, fc, todo, visited,
                    finished, sleeps, okPrev >>

\* GetWeather trying the same location again after an error.
GetWeather_retries ==
    /\ UNCHANGED extractor
    /\ proc = "running"
    /\ pc = "loc"
    /\ i <= Len(config.Locations)
    /\ \E geo \in GeocodeResponses(config.Locations[i]) :
       LET l == getLocation(geo)
           reqs == IF l.err \/ l.panic
                   THEN { [err |-> TRUE, fc |-> <<>>] }
                   ELSE ForecastResponses(LatString(l.loc[1]),
                                          LngString(l.loc[1]))
       IN  \E fw \in reqs :
           LET w == getWeather(geo, fw) IN
           /\ calls' = [geocode |-> calls.geocode + 1,
                        forecast |-> calls.forecast
                                     + (IF l.err \/ l.panic THEN 0 ELSE 1)]
           /\ IF w.panic
              THEN Exit("panicked")
              ELSE /\ log' = Append(log, Answered(config.Locations[i],
                                                  geo, fw))
                   /\ IF w.err # NoError
                      THEN /\ i' = i
                           /\ UNCHANGED << pc, fc, todo, visited >>
                      ELSE /\ pc' = "update"
                           /\ fc' = w.fc
                           /\ todo' = DOMAIN gauges
                           /\ visited' = << >>
                           /\ i' = i
                   /\ UNCHANGED << proc, config, gauges, server, cycleStart,
                                   okPrev, response >>
    /\ UNCHANGED << file, cycle, finished, sleeps >>

\* One iteration of the range over config.Locations, up to the update loop:
\* getWeather, and on an error the log line and the next location.
GetWeather ==
    /\ UNCHANGED extractor
    /\ proc = "running"
    /\ pc = "loc"
    /\ i <= Len(config.Locations)
    /\ \E geo \in GeocodeResponses(config.Locations[i]) :
       LET l == getLocation(geo)
           reqs == IF l.err \/ l.panic
                   THEN { [err |-> TRUE, fc |-> <<>>] }
                   ELSE ForecastResponses(LatString(l.loc[1]),
                                          LngString(l.loc[1]))
       IN  \E fw \in reqs :
           LET w == getWeather(geo, fw) IN
           /\ calls' = [geocode |-> calls.geocode + 1,
                        forecast |-> calls.forecast
                                     + (IF l.err \/ l.panic THEN 0 ELSE 1)]
           /\ IF w.panic
              THEN Exit("panicked")
              ELSE /\ log' = Append(log, Answered(config.Locations[i],
                                                  geo, fw))
                   /\ IF w.err # NoError
                      THEN /\ i' = i + 1
                           /\ UNCHANGED << pc, fc, todo, visited >>
                      ELSE /\ pc' = "update"
                           /\ fc' = w.fc
                           /\ todo' = DOMAIN gauges
                           /\ visited' = << >>
                           /\ i' = i
                   /\ UNCHANGED << proc, config, gauges, server, cycleStart,
                                   okPrev, response >>
    /\ UNCHANGED << file, cycle, finished, sleeps >>

\* One iteration of the range over gauges, in any order: the value of the
\* field, or the warning and the next key.
UpdateValue ==
    /\ UNCHANGED extractor
    /\ proc = "running"
    /\ pc = "update"
    /\ \E key \in todo :
       LET v == getValueByFieldName(key, fc[1].Currently) IN
       /\ todo' = IF v.err THEN continue(todo, key) ELSE todo \ {key}
       /\ visited' = Append(visited, key)
       /\ IF v.err
          THEN UNCHANGED gauges
          ELSE gauges' = [gauges EXCEPT ![key] =
                   WithLabelValuesSet(gauges[key],
                       LabelValues(config.Locations[i], fc[1]), v.val)]
    /\ UNCHANGED << file, proc, config, server, pc, i, fc, cycle, finished,
                    sleeps, calls, history, response >>

\* The range over gauges is over: the next location.
NextLocation ==
    /\ UNCHANGED extractor
    /\ proc = "running"
    /\ pc = "update"
    /\ todo = {}
    /\ pc' = "loc"
    /\ i' = i + 1
    /\ fc' = << >>
    /\ visited' = << >>
    /\ UNCHANGED << file, proc, config, gauges, server, todo, cycle,
                    finished, sleeps, calls, history, response >>

\* The end of a cycle with no time.Sleep before the next one.
EndCycle_noSleep ==
    /\ UNCHANGED extractor
    /\ proc = "running"
    /\ pc = "loc"
    /\ i > Len(config.Locations)
    /\ pc' = "cycle"
    /\ finished' = finished + 1
    /\ okPrev' = { log[n].name : n \in { m \in 1..Len(log) :
                                           log[m].fc # << >> } }
    /\ UNCHANGED << file, proc, config, gauges, server, i, fc, todo, visited,
                    cycle, sleeps, calls, cycleStart, log, response >>

\* The range over config.Locations is over: "Sleeping ..." and time.Sleep.
EndCycle ==
    /\ UNCHANGED extractor
    /\ proc = "running"
    /\ pc = "loc"
    /\ i > Len(config.Locations)
    /\ pc' = "sleep"
    /\ finished' = finished + 1
    /\ okPrev' = { log[n].name : n \in { m \in 1..Len(log) :
                                           log[m].fc # << >> } }
    /\ UNCHANGED << file, proc, config, gauges, server, i, fc, todo, visited,
                    cycle, sleeps, calls, cycleStart, log, response >>

\* time.Sleep returns.
WakeUp ==
    /\ UNCHANGED extractor
    /\ proc = "running"
    /\ pc = "sleep"
    /\ pc' = "cycle"
    /\ sleeps' = sleeps + 1
    /\ UNCHANGED << file, proc, config, gauges, server, i, fc, todo, visited,
                    cycle, finished, calls, history, response >>

(* --------------------------- the endpoint ----------------------------- *)

\* A scrape answered as a collector that computes on read would: one
\* geocoding request on the way to the answer.
Scrape_computeOnRead ==
    /\ UNCHANGED extractor
    /\ proc = "running"
    /\ server = "listening"
    /\ calls' = [calls EXCEPT !.geocode = @ + 1]
    /\ response' = << [samples |-> gauges,
                       during |-> IF pc \in {"loc", "update"}
                                  THEN cycle ELSE 0] >>
    /\ UNCHANGED << file, proc, config, gauges, server, worker, history >>

\* A scrape that is answered only when there is a sample to give.
Scrape_refusesWhenEmpty ==
    /\ UNCHANGED extractor
    /\ proc = "running"
    /\ server = "listening"
    /\ \E m \in DOMAIN gauges : DOMAIN gauges[m] # {}
    /\ response' = << [samples |-> gauges,
                       during |-> IF pc \in {"loc", "update"}
                                  THEN cycle ELSE 0] >>
    /\ UNCHANGED << file, proc, config, gauges, server, worker, calls,
                    history >>

\* promhttp.Handler answering one scrape: the samples of every registered
\* GaugeVec, as they are.
Scrape ==
    /\ UNCHANGED extractor
    /\ proc = "running"
    /\ server = "listening"
    /\ response' = << [samples |-> gauges,
                       during |-> IF pc \in {"loc", "update"}
                                  THEN cycle ELSE 0] >>
    /\ UNCHANGED << file, proc, config, gauges, server, worker, calls,
                    history >>

Next ==
    \/ main
    \/ ListenAndServe
    \/ ListenAndServeFails
    \/ BeginCycle
    \/ GetWeather
    \/ UpdateValue
    \/ NextLocation
    \/ EndCycle
    \/ WakeUp
    \/ Scrape

Spec == Init /\ [][Next]_vars

(* ------------------------ the worker's progress ----------------------- *)

\* A step of the refresh goroutine.
WorkerStep ==
    \/ BeginCycle
    \/ GetWeather
    \/ UpdateValue
    \/ NextLocation
    \/ EndCycle
    \/ WakeUp

\* The program with every upstream call returning and the goroutine
\* scheduled: it is never ready to run for ever without running, and
\* time.Sleep returns.
FairSpec == Spec /\ WF_vars(WorkerStep)

\* client.Geocode is called with context.Background() and forecast.Get with
\* no deadline: a call the service never answers never returns, and the
\* goroutine waits in it.
CallHangs ==
    /\ UNCHANGED extractor
    /\ proc = "running"
    /\ pc = "loc"
    /\ i <= Len(config.Locations)
    /\ pc' = "blocked"
    /\ \E n \in {0, 1} :
           calls' = [geocode |-> calls.geocode + 1,
                     forecast |-> calls.forecast + n]
    /\ UNCHANGED << file, proc, config, gauges, server, i, fc, todo, visited,
                    cycle, finished, sleeps, history, response >>

NextSlow ==
    \/ Next
    \/ CallHangs

\* The program with services that may never answer, the goroutine scheduled
\* as above.
SpecSlow == Init /\ [][NextSlow]_vars /\ WF_vars(WorkerStep)

(* ------------------- getValueByFieldName on its own ------------------- *)

\* The field names the extractor is called with: the six of the README, and
\* names that are none of them.
FieldNames ==
    { "temperature", "apparent_temperature", "wind_speed", "cloud_cover",
      "humidity", "precip_intensity",
      "", "bogus_field", "Temperature", "windSpeed", "pressure" }

\* The datapoints it is called with.
DataPoints ==
    [Temperature : 0..MaxValue, ApparentTemperature : 0..MaxValue,
     WindSpeed : 0..MaxValue, CloudCover : 0..MaxValue,
     Humidity : 0..MaxValue, PrecipIntensity : 0..MaxValue]

InitExtractor ==
    /\ file = [kind |-> "unreadable", Locations |-> <<>>, Metrics |-> <<>>]
    /\ proc = "init"
    /\ config = [Locations |-> <<>>, Metrics |-> <<>>]
    /\ gauges = << >>
    /\ server = "off"
    /\ pc = "off"
    /\ i = 0
    /\ fc = << >>
    /\ todo = {}
    /\ visited = << >>
    /\ cycle = 0
    /\ finished = 0
    /\ sleeps = 0
    /\ calls = [geocode |-> 0, forecast |-> 0]
    /\ cycleStart = << >>
    /\ log = << >>
    /\ okPrev = {}
    /\ response = << >>
    /\ callField = ""
    /\ callDp \in DataPoints
    /\ callRet = << >>

\* One call of getValueByFieldName.
CallExtractor ==
    /\ \E f \in FieldNames :
           /\ callField' = f
           /\ callRet' = << getValueByFieldName(f, callDp) >>
    /\ UNCHANGED << file, proc, config, gauges, server, worker, calls,
                    history, response, callDp >>

NextExtractor == CallExtractor

SpecExtractor == InitExtractor /\ [][NextExtractor]_vars

(* ----------------------------- claims --------------------------------- *)

\* The samples a registry g holds: metric, label values, value.
Samples(g) ==
    UNION { { << m, lv, g[m][lv] >> : lv \in DOMAIN g[m] } : m \in DOMAIN g }

\* Those of them whose location label is l.
SamplesOf(g, l) == { s \in Samples(g) : s[2][1] = l }

\* The locations the current cycle has asked the services about, and the
\* answers it got for one of them.
Asked == { log[n].name : n \in 1..Len(log) }

Answers(l) == { n \in 1..Len(log) : log[n].name = l }

ResolutionFailed(e) == e.geo.err \/ Len(e.geo.resp) = 0

FetchFailed(e) == ~ResolutionFailed(e) /\ ~e.fetched

UnitMismatch(e) == e.fetched /\ e.units # "si"

Succeeded(e) == e.fetched /\ e.units = "si"

\* The last answer of the cycle for location l that was a usable forecast.
LastSuccess(l) ==
    CHOOSE n \in Answers(l) :
        /\ Succeeded(log[n])
        /\ \A k \in Answers(l) : Succeeded(log[k]) => k <= n

HasSuccess(l) == \E n \in Answers(l) : Succeeded(log[n])

\* The worker is not between two Set calls of location l.
Settled(l) == ~(pc = "update" /\ config.Locations[i] = l)

\* The six fields the exporter supports, and the field of a datapoint each
\* names.
SupportedFields ==
    { "temperature", "apparent_temperature", "wind_speed", "cloud_cover",
      "humidity", "precip_intensity" }

FieldOf(m, dp) ==
    CASE m = "temperature" -> dp.Temperature
      [] m = "apparent_temperature" -> dp.ApparentTemperature
      [] m = "wind_speed" -> dp.WindSpeed
      [] m = "cloud_cover" -> dp.CloudCover
      [] m = "humidity" -> dp.Humidity
      [] m = "precip_intensity" -> dp.PrecipIntensity

\* A coordinate (a count of 1e-7 degrees) as the decimal string with six
\* fractional digits nearest to it (a count of 1e-6 degrees).
Dist(a, b) == IF a < b THEN b - a ELSE a - b

SixDigits(x) ==
    LET near == ((x \div 10) - 1)..((x \div 10) + 1) IN
    CHOOSE n \in near : \A k \in near : Dist(10 * n, x) <= Dist(10 * k, x)

\* C1: in a refresh cycle, a location for which every answer was a failed
\* resolution or a failed forecast fetch has, during and after the cycle,
\* exactly the samples (labels and values) it had when the cycle began:
\* none written, none modified, none removed.
C1_FailedLocationKeepsEntries ==
    \A l \in Asked :
        (\A n \in Answers(l) :
             ResolutionFailed(log[n]) \/ FetchFailed(log[n]))
        => SamplesOf(gauges, l) = SamplesOf(cycleStart, l)

\* C1's case: a finished cycle in which a location that had samples failed
\* to resolve or to fetch while the cycle changed the registry elsewhere.
C1_Witness ==
    /\ pc = "sleep"
    /\ gauges # cycleStart
    /\ \E l \in Asked :
           /\ \A n \in Answers(l) :
                  ResolutionFailed(log[n]) \/ FetchFailed(log[n])
           /\ SamplesOf(cycleStart, l) # {}

C3_SecondCycleReplacesTheFirst ==
    pc = "sleep" =>
        \A l \in Asked \cap okPrev :
            (HasSuccess(l) /\ Cardinality(Answers(l)) = 1) =>
                \A s \in SamplesOf(gauges, l) :
                    s[3] = FieldOf(s[1], log[LastSuccess(l)].fc[1].Currently)

\* C4: every published value comes from an SI forecast, and a location
\* for which every answer of the cycle was a forecast in another unit
\* system has exactly the samples it had when the cycle began.
C4_OnlySIReadingsArePublished ==
    /\ \A s \in Samples(gauges) :
           \E k \in Readings : s[3] = FieldOf(s[1], DataPoint(k, "si"))
    /\ \A l \in Asked :
           (\A n \in Answers(l) : UnitMismatch(log[n]))
           => SamplesOf(gauges, l) = SamplesOf(cycleStart, l)

\* C4's case: a finished cycle in which a location that had samples got a
\* forecast in another unit system while the cycle changed the registry
\* elsewhere.
C4_Witness ==
    /\ pc = "sleep"
    /\ gauges # cycleStart
    /\ \E l \in Asked :
           /\ \A n \in Answers(l) : UnitMismatch(log[n])
           /\ SamplesOf(cycleStart, l) # {}

\* C5: while the worker updates a location, every supported metric it has
\* visited holds the forecast's value under the location's labels, and the
\* metrics it has not visited are all still to be visited, whatever the
\* unsupported names met on the way.
C5_UnsupportedMetricFailsAlone ==
    pc = "update" =>
        /\ todo = DOMAIN gauges \ { visited[n] : n \in 1..Len(visited) }
        /\ \A m \in (DOMAIN gauges \ todo) \cap SupportedFields :
               LET lv == << config.Locations[i], SixDigits(fc[1].Latitude),
                            SixDigits(fc[1].Longitude) >>
               IN  /\ lv \in DOMAIN gauges[m]
                   /\ gauges[m][lv] = FieldOf(m, fc[1].Currently)

\* C5's case: the unsupported name was visited first, and the supported
\* metric after it was written.
C5_Witness ==
    /\ pc = "update"
    /\ visited = << "bogus_field", "temperature" >>
    /\ SamplesOf(gauges, config.Locations[i]) # {}

C7_ScrapeSeesWholeCycles ==
    (pc = "sleep" /\ response # << >> /\ response[1].during = cycle) =>
        \/ response[1].samples = cycleStart
        \/ response[1].samples = gauges

\* C8: whatever the services answer, the step in which the worker asks them
\* leaves the process running, the worker in its loop and the server as it
\* was.
C8_NoAnswerEndsTheProcess ==
    [][ (proc = "running" /\ calls'.geocode > calls.geocode) =>
            /\ proc' = "running"
            /\ pc' \in {"loc", "update"}
            /\ server' = server
      ]_vars

\* C9: cycles are started one after the other by the one worker: a cycle is
\* under way only when all earlier ones have finished and one sleep has
\* ended per earlier cycle (none before the first), and the worker sleeps
\* once after each cycle before it starts the next.
C9_OneCycleAtATime ==
    /\ finished <= cycle
    /\ cycle <= finished + 1
    /\ pc \in {"loc", "update"} => (finished = cycle - 1 /\ sleeps = cycle - 1)
    /\ pc = "sleep" => (finished = cycle /\ sleeps = cycle - 1)
    /\ pc = "cycle" => (finished = cycle /\ sleeps = cycle)

\* C9's case: the second cycle is under way, after one sleep.
C9_Witness ==
    /\ cycle = 2
    /\ pc = "update"
    /\ sleeps = 1
    /\ finished = 1

\* The configuration files main must refuse.
Refused(f) ==
    \/ f.kind # "ok"
    \/ Len(f.Locations) = 0
    \/ Len(f.Metrics) = 0
    \/ \E a, b \in 1..Len(f.Metrics) : a # b /\ f.Metrics[a] = f.Metrics[b]

\* C10: with a configuration file that cannot be read or parsed, or with
\* an empty location list or an empty metric list, or with a metric name
\* given twice, the process never runs: no worker, no cycle, no upstream
\* call, no listening server and no scrape answered.
C10_BadStartupNeverRuns ==
    Refused(file) =>
        /\ proc \in {"init", "exited"}
        /\ pc = "off"
        /\ cycle = 0
        /\ calls = [geocode |-> 0, forecast |-> 0]
        /\ server = "off"
        /\ response = << >>

\* C10's case: the process has ended on a metric name given twice.
C10_Witness ==
    /\ proc = "exited"
    /\ file.kind = "ok"
    /\ Len(file.Locations) > 0
    /\ Len(file.Metrics) = 2
    /\ file.Metrics[1] = file.Metrics[2]

\* C11: while the process runs and the server listens, a scrape can be
\* answered whatever the registry holds; and while the registry holds no
\* sample (as before the first cycle has written one), the answer a scrape
\* got holds no sample.
C11_ScrapeOfAnEmptyStoreSucceeds ==
    /\ (proc = "running" /\ server = "listening") => ENABLED Scrape
    /\ (response # << >> /\ Samples(gauges) = {})
           => Samples(response[1].samples) = {}

\* C11's case: a scrape was answered, with no sample, before the first
\* cycle began.
C11_Witness ==
    /\ proc = "running"
    /\ cycle = 0
    /\ response # << >>
    /\ Samples(response[1].samples) = {}

\* C12: called with one of the six supported names, getValueByFieldName
\* returns that field of the datapoint and no error; called with any other
\* name it returns an error; and a call changes neither the datapoint nor
\* the registry.
C12_ExtractorReturnsTheNamedField ==
    /\ [](callRet # << >> =>
             IF callField \in SupportedFields
             THEN /\ ~callRet[1].err
                  /\ callRet[1].val = FieldOf(callField, callDp)
             ELSE callRet[1].err)
    /\ [][callDp' = callDp /\ gauges' = gauges]_vars

\* C12's case: the extractor returned the last of the six fields, which
\* differs from the other five in the datapoint it was handed.
C12_Witness ==
    /\ callField = "precip_intensity"
    /\ callRet # << >>
    /\ callRet[1].val = callDp.PrecipIntensity
    /\ callDp.PrecipIntensity # callDp.Humidity
    /\ callDp.PrecipIntensity # callDp.Temperature

\* The label values a registry holds for metric m and location name l.
EntriesOf(g, m, l) == { lv \in DOMAIN g[m] : lv[1] = l }

\* The locations the configuration names once.
NamedOnce ==
    { config.Locations[n] : n \in 1..Len(config.Locations) }
        \ { config.Locations[n] : n \in
              { k \in 1..Len(config.Locations) :
                  \E j \in 1..Len(config.Locations) :
                      j # k /\ config.Locations[j] = config.Locations[k] } }

\* C13: the registry holds at most one entry for a metric and a location
\* name, and so does the answer to a scrape, for every location the
\* configuration names once.
C13_OneEntryPerMetricAndLocation ==
    \A l \in NamedOnce :
        /\ \A m \in DOMAIN gauges : Cardinality(EntriesOf(gauges, m, l)) <= 1
        /\ response # << >> =>
               \A m \in DOMAIN response[1].samples :
                   Cardinality(EntriesOf(response[1].samples, m, l)) <= 1

\* C14: a worker waiting in an upstream call that never returns still
\* finishes the cycle it is in (or the process ends).
C14_SlowCallDoesNotStopTheCycle ==
    (proc = "running" /\ pc = "blocked")
        ~> (proc # "running" \/ pc = "sleep")

\* The locations the current cycle attempted, in the order of the attempts.
Attempted == [n \in 1..Len(log) |-> log[n].name]

\* C15: with every upstream call returning and the worker scheduled, a
\* cycle that ended attempted every configured location once, in the order
\* of the list; a cycle that began ends; and after a cycle that ended the
\* next one begins (for as long as the server has not failed).
C15_EveryCycleAttemptsEveryLocation ==
    /\ []((pc \in {"sleep", "cycle"} /\ cycle > 0)
              => Attempted = config.Locations)
    /\ \A c \in 1..MaxCycles :
           (pc = "loc" /\ cycle = c) ~> (proc = "exited" \/ finished >= c)
    /\ \A c \in 0..(MaxCycles - 1) :
           (pc \in {"sleep", "cycle"} /\ cycle = c)
               ~> (proc = "exited" \/ cycle > c)

\* C16: in a cycle the resolver was called once for each location attempted
\* and the locations attempted are the first of the list, in its order; the
\* forecast client was called once for each of them that the resolver
\* resolved, and for no other; the update loop runs only for a location
\* whose forecast was fetched and is in SI units; and the registry differs
\* from what the cycle found only for such locations.
C16_StepsRunOnceAndInOrder ==
    (proc = "running" /\ cycle > 0) =>
        /\ Len(log) <= Len(config.Locations)
        /\ \A n \in 1..Len(log) : log[n].name = config.Locations[n]
        /\ calls.geocode = Len(log)
        /\ calls.forecast =
               Cardinality({ n \in 1..Len(log) : ~ResolutionFailed(log[n]) })
        /\ pc = "update" => (i = Len(log) /\ Succeeded(log[i]))
        /\ pc = "loc" => i = Len(log) + 1
        /\ \A s \in Samples(gauges) \ Samples(cycleStart) :
               \E n \in 1..Len(log) :
                   log[n].name = s[2][1] /\ Succeeded(log[n])

\* C16's case: a cycle over two locations ended; the resolver failed for
\* the first, so the forecast client was called for the second only, which
\* was then updated.
C16_Witness ==
    /\ pc = "sleep"
    /\ Len(log) = 2
    /\ ResolutionFailed(log[1])
    /\ Succeeded(log[2])
    /\ calls = [geocode |-> 2, forecast |-> 1]
    /\ Samples(gauges) # Samples(cycleStart)

\* The metric names of a configuration file.
MetricsOf(f) == { f.Metrics[n] : n \in 1..Len(f.Metrics) }

\* C17: a configuration main has no reason to refuse starts the process
\* with a gauge registered for every metric name it gives, supported or
\* not; the gauge of an unsupported name never holds an entry, in the
\* registry or in the answer to a scrape; and when a cycle has ended, every
\* supported metric holds, for every location the cycle fetched a usable
\* forecast for, the value of its field in the last such forecast.
C17_UnsupportedMetricIsNeverPublished ==
    /\ [][(proc = "init" /\ ~Refused(file))
              => (proc' = "running" /\ DOMAIN gauges' = MetricsOf(file))]_vars
    /\ [](\A m \in DOMAIN gauges \ SupportedFields : DOMAIN gauges[m] = {})
    /\ [](response # << >> =>
              \A m \in DOMAIN response[1].samples \ SupportedFields :
                  DOMAIN response[1].samples[m] = {})
    /\ [](pc = "sleep" =>
              \A l \in Asked : HasSuccess(l) =>
                  \A m \in DOMAIN gauges \cap SupportedFields :
                      \E lv \in EntriesOf(gauges, m, l) :
                          gauges[m][lv] =
                              FieldOf(m, log[LastSuccess(l)].fc[1].Currently))

\* C17's case: a process configured with a supported and an unsupported
\* name ended a cycle in which both locations were updated, and a scrape
\* was answered with the samples of the supported metric only.
C17_Witness ==
    /\ pc = "sleep"
    /\ DOMAIN gauges = {"temperature", "bogus_field"}
    /\ \A l \in {"Dublin", "Napoli"} : HasSuccess(l)
    /\ response # << >>
    /\ { s[1] : s \in Samples(response[1].samples) } = {"temperature"}
    /\ { s[2][1] : s \in Samples(response[1].samples) }
           = {"Dublin", "Napoli"}

\* The (metric, location name) pairs a registry holds an entry for.
Published(g) == { << s[1], s[2][1] >> : s \in Samples(g) }

\* C18: no step that leaves the process running removes an entry from the
\* registry: every gauge stays registered and keeps the label values it
\* had, so the (metric, location) pairs published only grow.
C18_EntriesAreNeverCleared ==
    [][proc' = "running" =>
           /\ \A m \in DOMAIN gauges :
                  /\ m \in DOMAIN gauges'
                  /\ DOMAIN gauges[m] \subseteq DOMAIN gauges'[m]
           /\ Published(gauges) \subseteq Published(gauges')]_vars

\* C18's case: a later cycle ended without a usable forecast for a
\* location the first cycle had published, another location was updated,
\* and the scrape answered after it still holds both.
C18_Witness ==
    /\ pc = "sleep"
    /\ cycle > 1
    /\ response # << >>
    /\ \E l \in Asked :
           /\ ~HasSuccess(l)
           /\ SamplesOf(response[1].samples, l) # {}
    /\ \E l \in Asked :
           /\ HasSuccess(l)
           /\ SamplesOf(response[1].samples, l) # SamplesOf(cycleStart, l)

====
